---- MODULE Spec2Model ----
(***************************************************************************)
(* repotok: a model of src/index.ts (parseGitignore, the directory walker, *)
(* the aggregator) and of src/cli.ts.  Text is modelled by TLA+ strings,   *)
(* on which TLC evaluates Len, \o, SubSeq, Head and Tail.                  *)
(***************************************************************************)
EXTENDS Integers, Sequences, FiniteSets, TLC

(***************************************************************************)
(* Text primitives of the JavaScript runtime that the program uses.        *)
(***************************************************************************)

\* s[i] as a one-character string
CharAt(s, i) == SubSeq(s, i, i)

\* s.substring(n)
Drop(s, n) == SubSeq(s, n + 1, Len(s))

\* String.prototype.startsWith
StartsWith(s, p) == Len(p) <= Len(s) /\ SubSeq(s, 1, Len(p)) = p

\* String.prototype.endsWith
EndsWith(s, p) == Len(p) <= Len(s) /\ SubSeq(s, Len(s) - Len(p) + 1, Len(s)) = p

\* s.replace(/from/g, to) for a literal `from`: leftmost, non-overlapping
RECURSIVE ReplaceAll(_, _, _)
ReplaceAll(s, from, to) ==
    IF s = "" THEN ""
    ELSE IF StartsWith(s, from)
         THEN to \o ReplaceAll(Drop(s, Len(from)), from, to)
         ELSE CharAt(s, 1) \o ReplaceAll(Tail(s), from, to)

\* s.split(sep) for a one-character separator: always at least one piece
RECURSIVE SplitOn(_, _)
SplitOn(s, sep) ==
    IF \A i \in 1..Len(s) : CharAt(s, i) # sep THEN <<s>>
    ELSE LET k == CHOOSE i \in 1..Len(s) :
                     /\ CharAt(s, i) = sep
                     /\ \A j \in 1..(i - 1) : CharAt(s, j) # sep
         IN  <<SubSeq(s, 1, k - 1)>> \o SplitOn(Drop(s, k), sep)

IsSpace(c) == c \in {" ", "\t", "\r", "\n", "\f"}

\* String.prototype.trim
RECURSIVE TrimLeft(_)
TrimLeft(s) == IF s # "" /\ IsSpace(CharAt(s, 1)) THEN TrimLeft(Tail(s)) ELSE s

RECURSIVE TrimRight(_)
TrimRight(s) ==
    IF s # "" /\ IsSpace(CharAt(s, Len(s)))
    THEN TrimRight(SubSeq(s, 1, Len(s) - 1)) ELSE s

Trim(s) == TrimRight(TrimLeft(s))

UpperLetters == "ABCDEFGHIJKLMNOPQRSTUVWXYZ"
LowerLetters == "abcdefghijklmnopqrstuvwxyz"

LowerChar(c) ==
    IF \E i \in 1..Len(UpperLetters) : CharAt(UpperLetters, i) = c
    THEN CharAt(LowerLetters, CHOOSE i \in 1..Len(UpperLetters) : CharAt(UpperLetters, i) = c)
    ELSE c

\* String.prototype.toLowerCase
RECURSIVE ToLowerCase(_)
ToLowerCase(s) == IF s = "" THEN "" ELSE LowerChar(CharAt(s, 1)) \o ToLowerCase(Tail(s))

(***************************************************************************)
(* RegExp.prototype.test for the regular expressions the conversion can    *)
(* emit: literals, `.`, `.*`, `[^/]`, `[^/]*`, `^`, `$`; no flags, so the  *)
(* search is unanchored unless the expression says otherwise.              *)
(***************************************************************************)
RECURSIVE MatchHere(_, _, _)
MatchHere(re, s, j) ==
    IF re = "" THEN TRUE
    ELSE IF StartsWith(re, "[^/]*")
         THEN \E k \in j..(Len(s) + 1) :
                 /\ \A i \in j..(k - 1) : CharAt(s, i) # "/"
                 /\ MatchHere(Drop(re, 5), s, k)
    ELSE IF StartsWith(re, "[^/]")
         THEN j <= Len(s) /\ CharAt(s, j) # "/" /\ MatchHere(Drop(re, 4), s, j + 1)
    ELSE IF StartsWith(re, ".*")
         THEN \E k \in j..(Len(s) + 1) :
                 /\ \A i \in j..(k - 1) : CharAt(s, i) \notin {"\n", "\r"}
                 /\ MatchHere(Drop(re, 2), s, k)
    ELSE IF StartsWith(re, ".")
         THEN j <= Len(s) /\ CharAt(s, j) \notin {"\n", "\r"} /\ MatchHere(Drop(re, 1), s, j + 1)
    ELSE IF StartsWith(re, "^")
         THEN j = 1 /\ MatchHere(Drop(re, 1), s, j)
    ELSE IF StartsWith(re, "$")
         THEN j = Len(s) + 1 /\ MatchHere(Drop(re, 1), s, j)
    ELSE j <= Len(s) /\ CharAt(s, j) = CharAt(re, 1) /\ MatchHere(Drop(re, 1), s, j + 1)

RegExpTest(re, s) == \E j \in 1..(Len(s) + 1) : MatchHere(re, s, j)

(***************************************************************************)
(* node:path (POSIX flavour).  cwd is process.cwd().                       *)
(***************************************************************************)
cwd == "/w/R"

\* the non-empty pieces between separators
Segments(p) == SelectSeq(SplitOn(p, "/"), LAMBDA x : x # "")

\* resolution of "." and ".." pieces, as normalizeString does
RECURSIVE NormalizeSegments(_, _, _)
NormalizeSegments(segs, acc, isAbs) ==
    IF segs = <<>> THEN acc
    ELSE LET h == Head(segs)
             t == Tail(segs)
         IN  IF h = "." THEN NormalizeSegments(t, acc, isAbs)
             ELSE IF h = ".."
                  THEN IF acc # <<>> /\ acc[Len(acc)] # ".."
                       THEN NormalizeSegments(t, SubSeq(acc, 1, Len(acc) - 1), isAbs)
                       ELSE IF isAbs THEN NormalizeSegments(t, acc, isAbs)
                            ELSE NormalizeSegments(t, Append(acc, ".."), isAbs)
             ELSE NormalizeSegments(t, Append(acc, h), isAbs)

RECURSIVE JoinSegments(_)
JoinSegments(segs) ==
    IF segs = <<>> THEN ""
    ELSE IF Len(segs) = 1 THEN segs[1]
    ELSE segs[1] \o "/" \o JoinSegments(Tail(segs))

\* path.normalize
normalize(p) ==
    IF p = "" THEN "."
    ELSE LET isAbs == StartsWith(p, "/")
             body  == JoinSegments(NormalizeSegments(Segments(p), <<>>, isAbs))
             tail  == IF body # "" /\ EndsWith(p, "/") THEN "/" ELSE ""
         IN  IF isAbs THEN "/" \o body \o tail
             ELSE IF body = "" THEN (IF EndsWith(p, "/") THEN "./" ELSE ".")
             ELSE body \o tail

\* path.join(a, b)
join(a, b) ==
    IF a = "" THEN normalize(b)
    ELSE IF b = "" THEN normalize(a)
    ELSE normalize(a \o "/" \o b)

\* path.resolve(p): absolute, normalized, no trailing separator
resolve(p) ==
    LET full == IF StartsWith(p, "/") THEN p ELSE cwd \o "/" \o p
    IN  "/" \o JoinSegments(NormalizeSegments(Segments(full), <<>>, TRUE))

RECURSIVE CommonPrefixLen(_, _)
CommonPrefixLen(a, b) ==
    IF a = <<>> \/ b = <<>> \/ Head(a) # Head(b) THEN 0
    ELSE 1 + CommonPrefixLen(Tail(a), Tail(b))

\* path.relative(from, to)
relative(from, to) ==
    LET f == Segments(resolve(from))
        t == Segments(resolve(to))
        n == CommonPrefixLen(f, t)
    IN  JoinSegments([i \in 1..(Len(f) - n) |-> ".."] \o SubSeq(t, n + 1, Len(t)))

\* path.basename(p)
basename(p) ==
    LET segs == Segments(p) IN IF segs = <<>> THEN "" ELSE segs[Len(segs)]

\* path.dirname(p), for an absolute normalized p
dirname(p) ==
    LET segs == Segments(p)
    IN  "/" \o JoinSegments(SubSeq(segs, 1, Len(segs) - 1))

\* path.extname(p): from the last "." of the base name, unless that "." is
\* its first character
extname(p) ==
    LET b    == basename(p)
        dots == {i \in 1..Len(b) : CharAt(b, i) = "."}
    IN  IF dots = {} \/ b = ".." THEN ""
        ELSE LET d == CHOOSE i \in dots : \A k \in dots : k <= i
             IN  IF d = 1 THEN "" ELSE SubSeq(b, d, Len(b))

(***************************************************************************)
(* Constants of src/index.ts                                               *)
(***************************************************************************)
MAX_FILE_SIZE_BYTES == 1024 * 1024

COMMON_IGNORED_DIRECTORIES ==
    {"node_modules", ".git", ".idea", ".vscode", "dist", "build"}

COMMON_IGNORED_FILES ==
    {"package-lock.json", "yarn.lock", "pnpm-lock.yaml", "bun.lockb",
     ".DS_Store", "Thumbs.db", ".env", ".env.local", ".env.development.local",
     ".env.test.local", ".env.production.local"}

BINARY_EXTENSIONS ==
    {".jpg", ".jpeg", ".png", ".gif", ".bmp", ".ico", ".svg", ".pdf", ".doc",
     ".docx", ".xls", ".xlsx", ".ppt", ".pptx", ".zip", ".rar", ".tar", ".gz",
     ".7z", ".exe", ".dll", ".so", ".dylib", ".mp3", ".mp4", ".avi", ".mov",
     ".flv", ".ttf", ".otf", ".woff", ".woff2", ".pyc", ".class"}

(***************************************************************************)
(* parseGitignore                                                          *)
(***************************************************************************)

\* pattern.replace(/^\//, '^')
AnchorStart(p) == IF StartsWith(p, "/") THEN "^" \o Drop(p, 1) ELSE p

\* pattern.replace(/\/$/, '$')
AnchorEnd(p) == IF EndsWith(p, "/") THEN SubSeq(p, 1, Len(p) - 1) \o "$" ELSE p

convertGitignorePatternToRegex(pattern) ==
    AnchorEnd(AnchorStart(
        ReplaceAll(
            ReplaceAll(
                ReplaceAll(
                    ReplaceAll(pattern, "**", "___GLOBSTAR___"),
                    "*", "[^/]*"),
                "?", "[^/]"),
            "___GLOBSTAR___", ".*")))

\* `.` of a RegExp without the s flag: any character but a line terminator
IsLineTerminator(c) == c \in {"\n", "\r"}

\* line.replace(/#.*$/, ''): the leftmost "#" from which `.*` reaches the end
\* of the string is cut off with everything after it
StripComment(line) ==
    LET starts == {i \in 1..Len(line) :
                      /\ CharAt(line, i) = "#"
                      /\ \A k \in (i + 1)..Len(line) : ~IsLineTerminator(CharAt(line, k))}
    IN  IF starts = {} THEN line
        ELSE SubSeq(line, 1, (CHOOSE i \in starts : \A k \in starts : i <= k) - 1)

\* one kept line -> { pattern, isNegated }
ParseRule(line) ==
    LET isNegated == StartsWith(line, "!")
        pattern   == IF isNegated THEN Drop(line, 1) ELSE line
    IN  [pattern |-> convertGitignorePatternToRegex(pattern), isNegated |-> isNegated]

\* the rules array built by parseGitignore(content)
parseGitignore(content) ==
    LET lines   == SplitOn(content, "\n")
        cleaned == [i \in 1..Len(lines) |-> Trim(StripComment(lines[i]))]
        kept    == SelectSeq(cleaned, LAMBDA l : Len(l) > 0)
    IN  [i \in 1..Len(kept) |-> ParseRule(kept[i])]

\* a reduce that lets the first matching rule decide
RECURSIVE ReduceRules_firstMatchWins(_, _, _)
ReduceRules_firstMatchWins(rules, normalizedPath, shouldInclude) ==
    IF rules = <<>> THEN shouldInclude
    ELSE IF RegExpTest(Head(rules).pattern, normalizedPath)
         THEN Head(rules).isNegated
         ELSE ReduceRules_firstMatchWins(Tail(rules), normalizedPath, shouldInclude)

\* rules.reduce((shouldInclude, rule) => matches ? rule.isNegated : shouldInclude, acc)
RECURSIVE ReduceRules(_, _, _)
ReduceRules(rules, normalizedPath, shouldInclude) ==
    IF rules = <<>> THEN shouldInclude
    ELSE ReduceRules(Tail(rules), normalizedPath,
                     IF RegExpTest(Head(rules).pattern, normalizedPath)
                     THEN Head(rules).isNegated
                     ELSE shouldInclude)

\* parser.accepts(filePath), the parser being the one parseGitignore returned
accepts(rules, filePath) ==
    ReduceRules(rules, ReplaceAll(filePath, "\\", "/"), TRUE)

\* createDefaultGitignoreParser().accepts and parseGitignore(..).accepts behind
\* the one GitignoreParser interface
parserAccepts(parser, filePath) ==
    IF parser.isDefault THEN TRUE ELSE accepts(parser.rules, filePath)

(***************************************************************************)
(* Helpers of the walker and of the aggregator                             *)
(***************************************************************************)
RECURSIVE Repeat(_, _)
Repeat(s, n) == IF n = 0 THEN "" ELSE s \o Repeat(s, n - 1)

createFileHeader(filePath) ==
    LET separator == Repeat("=", 80)
    IN  separator \o "\n// FILE: " \o filePath \o "\n" \o separator

isBinaryFile(filePath) == ToLowerCase(extname(filePath)) \in BINARY_EXTENSIONS

\* a list that lacks its first name
isCommonIgnoredDirectory_withoutNodeModules(directoryName) ==
    directoryName \in (COMMON_IGNORED_DIRECTORIES \ {"node_modules"})

isCommonIgnoredDirectory(directoryName) == directoryName \in COMMON_IGNORED_DIRECTORIES

\* a check that takes every dot-file for an ignored one
isCommonIgnoredFile_anyDotFile(filename) ==
    filename \in COMMON_IGNORED_FILES \/ StartsWith(filename, ".")

isCommonIgnoredFile(filename) == filename \in COMMON_IGNORED_FILES

\* a threshold that is off by one
isFileTooLarge_inclusive(fileSize) == fileSize >= MAX_FILE_SIZE_BYTES

isFileTooLarge(fileSize) == fileSize > MAX_FILE_SIZE_BYTES

\* the appendToOutput callback: outputContent += `${header}\n${content}\n\n`
appendToOutput(out, relativePath, content) ==
    out \o createFileHeader(relativePath) \o "\n" \o content \o "\n\n"

(***************************************************************************)
(* The file system, keyed by absolute path.  A directory lists its entry   *)
(* names in enumeration order; a listed name without a node is an entry    *)
(* that cannot be stat'ed (it disappeared, or is a dangling link).         *)
(***************************************************************************)
File(content, size) ==
    [kind |-> "file", size |-> size, content |-> content, readable |-> TRUE, entries |-> <<>>]

Unreadable(node) == [node EXCEPT !.readable = FALSE]

Dir(entries) ==
    [kind |-> "dir", size |-> 0, content |-> "", readable |-> TRUE, entries |-> entries]

Other == [kind |-> "other", size |-> 0, content |-> "", readable |-> TRUE, entries |-> <<>>]

Exists(disk, p) == resolve(p) \in DOMAIN disk

Node(disk, p) == disk[resolve(p)]

\* fs.stat(p) resolves
statOk(disk, p) == Exists(disk, p)

\* fs.readFile(p, 'utf8') resolves
readFileOk(disk, p) ==
    Exists(disk, p) /\ Node(disk, p).kind = "file" /\ Node(disk, p).readable

\* fs.readdir(p) resolves
readdirOk(disk, p) ==
    Exists(disk, p) /\ Node(disk, p).kind = "dir" /\ Node(disk, p).readable

\* fs.writeFile(p, data) resolves: the parent is a directory and p is not one
writeFileOk(disk, p) ==
    LET parent == dirname(resolve(p))
    IN  /\ parent \in DOMAIN disk
        /\ disk[parent].kind = "dir"
        /\ (Exists(disk, p) => Node(disk, p).kind = "file")

InsertAt(seq, k, x) == SubSeq(seq, 1, k - 1) \o <<x>> \o SubSeq(seq, k, Len(seq))

\* the disk after fs.writeFile(p, data); a file created by the write shows up
\* at position k of its directory's enumeration
writeFile(disk, p, data, k) ==
    LET abs    == resolve(p)
        parent == dirname(abs)
        node   == File(data, Len(data))
    IN  IF abs \in DOMAIN disk
        THEN [disk EXCEPT ![abs] = node]
        ELSE (abs :> node) @@
             [disk EXCEPT ![parent].entries = InsertAt(@, k, basename(abs))]

(***************************************************************************)
(* Bounds and the inputs the runs are drawn from                           *)
(***************************************************************************)
\* consecutive invocations of the CLI with the same arguments
MaxRuns == 2

\* lines of a probed .gitignore content
MaxRules == 2

Root == "/w/R"

\* the trees below Root, without their .gitignore
TreeNodes(t) ==
    CASE t = 1 ->
           (Root :> Dir(<<"a.txt", "b.txt", "sub">>))
        @@ ("/w/R/a.txt" :> File("hello", 5))
        @@ ("/w/R/b.txt" :> File("ignored", 7))
        @@ ("/w/R/sub" :> Dir(<<"c.txt">>))
        @@ ("/w/R/sub/c.txt" :> File("world", 5))
      [] t = 2 ->
           (Root :> Dir(<<"node_modules", "src", "keep.log", "other.log", "pipe", ".env">>))
        @@ ("/w/R/node_modules" :> Dir(<<"m.js">>))
        @@ ("/w/R/node_modules/m.js" :> File("m", 1))
        @@ ("/w/R/src" :> Dir(<<"node_modules", "max.txt", "big.txt", "photo.PNG", "clip.Mp4", "locked.txt">>))
        @@ ("/w/R/src/node_modules" :> Dir(<<"x.js">>))
        @@ ("/w/R/src/node_modules/x.js" :> File("x", 1))
        @@ ("/w/R/src/max.txt" :> File("max", 1048576))
        @@ ("/w/R/src/big.txt" :> File("big", 1048577))
        @@ ("/w/R/src/photo.PNG" :> File("png", 3))
        @@ ("/w/R/src/clip.Mp4" :> File("mp4", 2097152))
        @@ ("/w/R/src/locked.txt" :> Unreadable(File("no", 2)))
        @@ ("/w/R/keep.log" :> File("k", 1))
        @@ ("/w/R/other.log" :> File("o", 1))
        @@ ("/w/R/pipe" :> Other)
        @@ ("/w/R/.env" :> File("S=1", 3))
      [] t = 3 ->
           (Root :> Dir(<<"dist", "a.txt", "lost", "z.txt">>))
        @@ ("/w/R/dist" :> Dir(<<"o.js">>))
        @@ ("/w/R/dist/o.js" :> File("o", 1))
        @@ ("/w/R/a.txt" :> File("hello", 5))
        @@ ("/w/R/z.txt" :> File("zed", 3))

Trees == {1, 2, 3}

\* the .gitignore under Root: absent, unreadable, or one of these contents
GitignoreContents == {"b.txt", "!node_modules", "*.log\n!keep.log", "# none\n\n"}

Gitignores == {"<absent>", "<unreadable>"} \cup GitignoreContents

InitialDisk(t, g) ==
    LET tree == TreeNodes(t)
        top  == ("/" :> Dir(<<"w">>)) @@ ("/w" :> Dir(<<"R">>))
    IN  IF g = "<absent>" THEN top @@ tree
        ELSE top
          @@ ("/w/R/.gitignore" :>
                 IF g = "<unreadable>" THEN Unreadable(File("", 0)) ELSE File(g, Len(g)))
          @@ [tree EXCEPT ![Root].entries = <<".gitignore">> \o @]

\* process.argv[2]: the root as the caller spells it
ProjectPaths == {"/w/R", "/w/R/", ".", "/w/nowhere"}

\* process.argv[3]
OutputPaths == {"/w/o.txt", "/w/R/out.txt", "out.txt", "/w/nodir/o.txt"}

\* lines and paths the matcher is probed with
ProbeLines ==
    {"*.log", "!keep.log", "**/node_modules", "*.tmp", "/build", "sub/",
     "!", "# note", " a?.txt "}

ProbePaths ==
    {"keep.log", "other.log", "node_modules", "a/b/node_modules", "x.tmp",
     "dir/x.tmp.bak", "build", "src/build", "builder", "sub", "sub/c.txt",
     "ab.txt"}

RECURSIVE ContentsOfLen(_)
ContentsOfLen(n) ==
    IF n = 0 THEN {""}
    ELSE IF n = 1 THEN ProbeLines
    ELSE {l \o "\n" \o c : l \in ProbeLines, c \in ContentsOfLen(n - 1)}

ProbeContents == UNION {ContentsOfLen(n) : n \in 0..MaxRules}

(***************************************************************************)
(* State                                                                   *)
(***************************************************************************)
VARIABLES
    scenario,         \* the tree and .gitignore the disk started from
    disk,             \* the file system
    argv,             \* projectPath and outputPath as the CLI computed them
    pc,               \* where the current invocation is
    gitignoreParser,  \* parseProject's parser
    pending,          \* currentPath of the processDirectory call being entered
    stack,            \* processDirectory activations: currentPath, entries left
    outputContent,    \* parseProject's buffer
    log,              \* console output, in order
    run,              \* number of the current invocation
    records,          \* fileCallback invocations of the current invocation
    listed,           \* directories readdir was called on, current invocation
    visited,          \* processFile calls that got a stat, current invocation
    written,          \* data of each successful final write, with its run
    outcomes,         \* how parseProject settled, per finished invocation
    exits,            \* exit code, per finished invocation
    error,            \* the reason parseProject's promise rejected with, if it did
    probe             \* a .gitignore content and a path handed to accepts

vars == <<scenario, disk, argv, pc, gitignoreParser, pending, stack,
          outputContent, log, run, records, listed, visited, written,
          outcomes, exits, error, probe>>

runVars == <<scenario, disk, argv, pc, gitignoreParser, pending, stack,
             outputContent, log, run, records, listed, visited, written,
             outcomes, exits, error>>

NoParser == [isDefault |-> TRUE, rules |-> <<>>]

NoProbe == [content |-> "", path |-> "", done |-> FALSE, result |-> TRUE]

FreshRun ==
    /\ gitignoreParser = NoParser
    /\ pending = ""
    /\ stack = <<>>
    /\ outputContent = ""
    /\ records = <<>>
    /\ listed = <<>>
    /\ visited = <<>>
    /\ error = ""

Init ==
    /\ \E t \in Trees, g \in Gitignores :
          /\ scenario = [tree |-> t, gitignore |-> g]
          /\ disk = InitialDisk(t, g)
    /\ \E p \in ProjectPaths, o \in OutputPaths :
          argv = [projectPath |-> p, outputPath |-> o]
    /\ pc = "start"
    /\ FreshRun
    /\ log = <<>>
    /\ run = 1
    /\ written = <<>>
    /\ outcomes = <<>>
    /\ exits = <<>>
    /\ probe = NoProbe

(***************************************************************************)
(* parseProject, processDirectory and processFile, one step per await      *)
(***************************************************************************)
Top == stack[Len(stack)]
entry == Head(Top.entries)
fullPath == join(Top.currentPath, entry)
relativePath == relative(argv.projectPath, fullPath)

InLoopBody == pc = "walk" /\ stack # <<>> /\ Top.entries # <<>>

\* `continue`, or the end of the loop body
NextEntry == stack' = [stack EXCEPT ![Len(stack)].entries = Tail(@)]

\* a rejection nothing in index.ts catches: it reaches the caller of parseProject
Reject(reason) == pc' = "catch" /\ stack' = <<>> /\ error' = reason

\* parseProject is called and logs its first line
StartParse ==
    /\ pc = "start"
    /\ log' = Append(log, "Starting to parse project at " \o argv.projectPath)
    /\ pc' = "load"
    /\ UNCHANGED <<error, scenario, disk, argv, gitignoreParser, pending, stack,
                   outputContent, run, records, listed, visited, written,
                   outcomes, exits, probe>>

\* loadGitignoreParser(projectPath), then the first processDirectory call
loadGitignoreParser ==
    /\ pc = "load"
    /\ LET gitignorePath == join(argv.projectPath, ".gitignore")
       IN  IF readFileOk(disk, gitignorePath)
           THEN /\ log' = Append(log, "Loaded .gitignore rules")
                /\ gitignoreParser' =
                       [isDefault |-> FALSE,
                        rules |-> parseGitignore(Node(disk, gitignorePath).content)]
           ELSE /\ log' = Append(log, "No .gitignore found or error parsing it, will include all files")
                /\ gitignoreParser' = NoParser
    /\ outputContent' = ""
    /\ pending' = argv.projectPath
    /\ pc' = "readdir"
    /\ UNCHANGED <<error, scenario, disk, argv, stack, run, records, listed, visited,
                   written, outcomes, exits, probe>>

\* const entries = await fs.readdir(currentPath)
ReaddirOk ==
    /\ pc = "readdir"
    /\ readdirOk(disk, pending)
    /\ stack' = Append(stack, [currentPath |-> pending, entries |-> Node(disk, pending).entries])
    /\ listed' = Append(listed, pending)
    /\ pc' = "walk"
    /\ UNCHANGED <<error, scenario, disk, argv, gitignoreParser, pending, outputContent,
                   log, run, records, visited, written, outcomes, exits, probe>>

ReaddirFails ==
    /\ pc = "readdir"
    /\ ~readdirOk(disk, pending)
    /\ listed' = Append(listed, pending)
    /\ Reject("readdir " \o pending)
    /\ UNCHANGED <<scenario, disk, argv, gitignoreParser, pending, outputContent,
                   log, run, records, visited, written, outcomes, exits, probe>>

\* if (!isAcceptedByGitignore) continue
SkipIgnoredPath ==
    /\ InLoopBody
    /\ ~parserAccepts(gitignoreParser, relativePath)
    /\ log' = Append(log, "Skipping ignored path: " \o relativePath)
    /\ NextEntry
    /\ UNCHANGED <<error, scenario, disk, argv, pc, gitignoreParser, pending,
                   outputContent, run, records, listed, visited, written,
                   outcomes, exits, probe>>

\* const stats = await fs.stat(fullPath) rejects, outside any try
StatFails ==
    /\ InLoopBody
    /\ parserAccepts(gitignoreParser, relativePath)
    /\ ~statOk(disk, fullPath)
    /\ Reject("stat " \o fullPath)
    /\ UNCHANGED <<scenario, disk, argv, gitignoreParser, pending, outputContent,
                   log, run, records, listed, visited, written, outcomes, exits,
                   probe>>

\* the entry passed the parser and was stat'ed
Stated(kind) ==
    /\ InLoopBody
    /\ parserAccepts(gitignoreParser, relativePath)
    /\ statOk(disk, fullPath)
    /\ Node(disk, fullPath).kind = kind

\* if (shouldSkipDirectory) continue
SkipCommonDirectory ==
    /\ Stated("dir")
    /\ isCommonIgnoredDirectory(entry)
    /\ log' = Append(log, "Skipping common ignored directory: " \o relativePath)
    /\ NextEntry
    /\ UNCHANGED <<error, scenario, disk, argv, pc, gitignoreParser, pending,
                   outputContent, run, records, listed, visited, written,
                   outcomes, exits, probe>>

\* await processDirectory(basePath, fullPath, ...)
EnterDirectory ==
    /\ Stated("dir")
    /\ ~isCommonIgnoredDirectory(entry)
    /\ pending' = fullPath
    /\ pc' = "readdir"
    /\ NextEntry
    /\ UNCHANGED <<error, scenario, disk, argv, gitignoreParser, outputContent, log,
                   run, records, listed, visited, written, outcomes, exits,
                   probe>>

\* what processFile(filePath, relativePath, outputPath, fileCallback) does
processFileOutcome(d, filePath, outputPath) ==
    IF ~statOk(d, filePath) THEN "error"
    ELSE LET fileStats     == Node(d, filePath)
             filename      == basename(filePath)
             isOutputFile  == filePath = resolve(outputPath)
             isBinary      == isBinaryFile(filePath)
             isTooLarge    == isFileTooLarge(fileStats.size)
             isIgnoredFile == isCommonIgnoredFile(filename)
         IN  IF isOutputFile THEN "output"
             ELSE IF isBinary \/ isTooLarge THEN "binaryOrLarge"
             ELSE IF isIgnoredFile THEN "ignoredFile"
             ELSE IF ~readFileOk(d, filePath) THEN "error"
             ELSE "processed"

\* else if (stats.isFile()) await processFile(...)
processFile ==
    /\ Stated("file")
    /\ LET outcome == processFileOutcome(disk, fullPath, argv.outputPath)
       IN  /\ visited' = Append(visited, [filePath |-> fullPath, size |-> Node(disk, fullPath).size])
           /\ IF outcome = "processed"
              THEN /\ outputContent' = appendToOutput(outputContent, relativePath, Node(disk, fullPath).content)
                   /\ records' = Append(records, [filePath |-> fullPath, relativePath |-> relativePath,
                                                  content |-> Node(disk, fullPath).content])
              ELSE UNCHANGED <<outputContent, records>>
           /\ log' = CASE outcome = "processed"     -> Append(log, "Processed: " \o relativePath)
                       [] outcome = "binaryOrLarge" -> Append(log, "Skipping binary or large file: " \o relativePath)
                       [] outcome = "ignoredFile"   -> Append(log, "Skipping common ignored file: " \o relativePath)
                       [] outcome = "error"         -> Append(log, "Error processing file " \o fullPath \o ":")
                       [] outcome = "output"        -> log
    /\ NextEntry
    /\ UNCHANGED <<error, scenario, disk, argv, pc, gitignoreParser, pending, run,
                   listed, written, outcomes, exits, probe>>

\* neither isDirectory() nor isFile(): the loop body does nothing
SkipOtherEntry ==
    /\ Stated("other")
    /\ NextEntry
    /\ UNCHANGED <<error, scenario, disk, argv, pc, gitignoreParser, pending,
                   outputContent, log, run, records, listed, visited, written,
                   outcomes, exits, probe>>

\* a return from a nested call that ends the whole walk
ReturnFromDirectory_endsWalk ==
    /\ pc = "walk"
    /\ stack # <<>>
    /\ Top.entries = <<>>
    /\ stack' = <<>>
    /\ pc' = "write"
    /\ UNCHANGED <<error, scenario, disk, argv, gitignoreParser, pending, outputContent,
                   log, run, records, listed, visited, written, outcomes, exits,
                   probe>>

\* the for loop of a processDirectory call is over: the call resolves
ReturnFromDirectory ==
    /\ pc = "walk"
    /\ stack # <<>>
    /\ Top.entries = <<>>
    /\ stack' = SubSeq(stack, 1, Len(stack) - 1)
    /\ pc' = IF Len(stack) = 1 THEN "write" ELSE "walk"
    /\ UNCHANGED <<error, scenario, disk, argv, gitignoreParser, pending, outputContent,
                   log, run, records, listed, visited, written, outcomes, exits,
                   probe>>

\* await fs.writeFile(outputPath, outputContent)
WriteOk ==
    /\ pc = "write"
    /\ writeFileOk(disk, argv.outputPath)
    /\ \E k \in 1..(Len(disk[dirname(resolve(argv.outputPath))].entries) + 1) :
          /\ Exists(disk, argv.outputPath) => k = 1
          /\ disk' = writeFile(disk, argv.outputPath, outputContent, k)
    /\ written' = Append(written, [run |-> run, data |-> outputContent])
    /\ log' = Append(log, "Project successfully parsed and written to " \o argv.outputPath)
    /\ pc' = "then"
    /\ UNCHANGED <<error, scenario, argv, gitignoreParser, pending, stack,
                   outputContent, run, records, listed, visited, outcomes,
                   exits, probe>>

WriteFails ==
    /\ pc = "write"
    /\ ~writeFileOk(disk, argv.outputPath)
    /\ Reject("writeFile " \o argv.outputPath)
    /\ UNCHANGED <<scenario, disk, argv, gitignoreParser, pending, outputContent,
                   log, run, records, listed, visited, written, outcomes, exits,
                   probe>>

(***************************************************************************)
(* src/cli.ts                                                              *)
(***************************************************************************)
\* the code the node process ends with once nothing is left to run: no
\* handler of cli.ts sets process.exitCode or calls process.exit
exitCodeAfter(handler) == 0

\* .then(() => console.log('Done!'))
Then ==
    /\ pc = "then"
    /\ log' = Append(log, "Done!")
    /\ outcomes' = Append(outcomes, "fulfilled")
    /\ exits' = Append(exits, exitCodeAfter("then"))
    /\ pc' = "exited"
    /\ UNCHANGED <<error, scenario, disk, argv, gitignoreParser, pending, stack,
                   outputContent, run, records, listed, visited, written, probe>>

\* .catch((error) => console.error('Error:', error))
Catch ==
    /\ pc = "catch"
    /\ log' = Append(log, "Error: " \o error)
    /\ outcomes' = Append(outcomes, "rejected")
    /\ exits' = Append(exits, exitCodeAfter("catch"))
    /\ pc' = "exited"
    /\ UNCHANGED <<error, scenario, disk, argv, gitignoreParser, pending, stack,
                   outputContent, run, records, listed, visited, written, probe>>

\* the caller invokes the CLI again with the same arguments
RunAgain ==
    /\ pc = "exited"
    /\ run < MaxRuns
    /\ run' = run + 1
    /\ pc' = "start"
    /\ gitignoreParser' = NoParser
    /\ pending' = ""
    /\ stack' = <<>>
    /\ outputContent' = ""
    /\ records' = <<>>
    /\ listed' = <<>>
    /\ visited' = <<>>
    /\ log' = <<>>
    /\ error' = ""
    /\ UNCHANGED <<scenario, disk, argv, written, outcomes, exits, probe>>

Next ==
    \/ StartParse
    \/ loadGitignoreParser
    \/ ReaddirOk
    \/ ReaddirFails
    \/ SkipIgnoredPath
    \/ StatFails
    \/ SkipCommonDirectory
    \/ EnterDirectory
    \/ processFile
    \/ SkipOtherEntry
    \/ ReturnFromDirectory
    \/ WriteOk
    \/ WriteFails
    \/ Then
    \/ Catch
    \/ RunAgain

Spec == Init /\ [][Next]_vars

(***************************************************************************)
(* The matcher on its own: a content and a path are drawn, accepts is      *)
(* applied once.                                                           *)
(***************************************************************************)
MatchInit ==
    /\ scenario = [tree |-> 1, gitignore |-> "<absent>"]
    /\ disk = InitialDisk(1, "<absent>")
    /\ argv = [projectPath |-> Root, outputPath |-> "/w/o.txt"]
    /\ pc = "probe"
    /\ FreshRun
    /\ log = <<>>
    /\ run = 1
    /\ written = <<>>
    /\ outcomes = <<>>
    /\ exits = <<>>
    /\ \E c \in ProbeContents, p \in ProbePaths :
          probe = [content |-> c, path |-> p, done |-> FALSE, result |-> TRUE]

ProbeAccepts ==
    /\ pc = "probe"
    /\ ~probe.done
    /\ probe' = [probe EXCEPT !.done = TRUE,
                              !.result = accepts(parseGitignore(probe.content), probe.path)]
    /\ UNCHANGED runVars

MatchNext == ProbeAccepts

MatchSpec == MatchInit /\ [][MatchNext]_vars

(***************************************************************************)
(* Properties                                                              *)
(***************************************************************************)
RecordPaths == [i \in DOMAIN records |-> records[i].relativePath]

HasRecord(filePath) == \E i \in DOMAIN records : records[i].filePath = filePath

Settled == pc = "exited"

Fulfilled == Settled /\ outcomes[Len(outcomes)] = "fulfilled"

Logged(line) == \E i \in DOMAIN log : log[i] = line

\* the tree of the end-to-end example, with the output outside of it
EndToEndCase ==
    /\ scenario = [tree |-> 1, gitignore |-> "b.txt"]
    /\ ~StartsWith(resolve(argv.outputPath), Root \o "/")

\* C1 (as amended): on the tree {a.txt, .gitignore: "b.txt", b.txt, sub/c.txt}
\* with the output outside the tree, a fulfilled run leaves an artifact of
\* exactly three records, for .gitignore, a.txt and sub/c.txt, and none for b.txt.
C1_EndToEndThreeRecords ==
    (EndToEndCase /\ Fulfilled) =>
        /\ RecordPaths = <<".gitignore", "a.txt", "sub/c.txt">>
        /\ written[Len(written)].data = outputContent
        /\ written[Len(written)].data =
               appendToOutput(appendToOutput(appendToOutput("",
                   ".gitignore", "b.txt"), "a.txt", "hello"), "sub/c.txt", "world")

C1_Witness ==
    EndToEndCase /\ Fulfilled /\ Len(records) = 3 /\ Logged("Skipping ignored path: b.txt")

\* C1 as stated: the artifact holds exactly two records, for a.txt and sub/c.txt.
C1_EndToEndTwoRecords ==
    (EndToEndCase /\ Fulfilled) =>
        /\ Len(records) = 2
        /\ {RecordPaths[i] : i \in DOMAIN RecordPaths} = {"a.txt", "sub/c.txt"}

\* C2 as stated: no run ever appends a record for the output file, however the
\* root is spelled and also when the output file exists from a prior run.
C2_SelfExclusion ==
    \A i \in DOMAIN records :
        resolve(records[i].filePath) # resolve(argv.outputPath)

\* the decision of the last rule, in declaration order, whose expression
\* matches; acceptance when there is none
LastMatchDecides(rules, path) ==
    LET matching == {i \in DOMAIN rules : RegExpTest(rules[i].pattern, path)}
    IN  IF matching = {} THEN TRUE
        ELSE rules[CHOOSE i \in matching : \A k \in matching : k <= i].isNegated

\* C3: accepts(path) is true when no rule matches, and otherwise is the negation
\* flag of the last matching rule in file order; with "*.log", "!keep.log" the
\* path keep.log is accepted and other.log is rejected.
C3_LastMatchingRuleWins ==
    probe.done =>
        /\ probe.result = LastMatchDecides(parseGitignore(probe.content), probe.path)
        /\ (probe.content = "*.log\n!keep.log" /\ probe.path = "keep.log") => probe.result
        /\ (probe.content = "*.log\n!keep.log" /\ probe.path = "other.log") => ~probe.result

C3_Witness ==
    /\ probe.done
    /\ probe.content = "*.log\n!keep.log"
    /\ probe.path = "keep.log"
    /\ probe.result

\* C4 as stated: the single rule **/node_modules rejects node_modules at the
\* top level exactly as it rejects a/b/node_modules.
C4_GlobstarZeroSegments ==
    (probe.done /\ probe.content = "**/node_modules"
                /\ probe.path \in {"node_modules", "a/b/node_modules"}) => ~probe.result

\* C5 as stated: the single rule *.tmp rejects x.tmp but does not reject
\* dir/x.tmp.bak.
C5_SingleStarWholeName ==
    (probe.done /\ probe.content = "*.tmp") =>
        /\ probe.path = "x.tmp" => ~probe.result
        /\ probe.path = "dir/x.tmp.bak" => probe.result

IsTopLevel(path) == \A i \in 1..Len(path) : CharAt(path, i) # "/"

\* C6 as stated: the single rule /build rejects only the top-level entry build:
\* not src/build, and no other top-level entry.
C6_LeadingSlashAnchor ==
    (probe.done /\ probe.content = "/build") =>
        /\ probe.path = "build" => ~probe.result
        /\ probe.path = "src/build" => probe.result
        /\ (IsTopLevel(probe.path) /\ probe.path # "build") => probe.result

BuiltInDirectoryNames == {"node_modules", ".git", ".idea", ".vscode", "dist", "build"}

\* the directories on the way from the root to dir, dir included
DirectoriesBelowRoot(dir) == Segments(relative(argv.projectPath, dir))

\* C7: whatever the .gitignore says, and also without one, a directory below
\* the root that bears a built-in name is never listed, and no file beneath it
\* contributes a record.
C7_BuiltInDirectoryPruning ==
    /\ \A i \in DOMAIN listed :
          \A k \in DOMAIN DirectoriesBelowRoot(listed[i]) :
              DirectoriesBelowRoot(listed[i])[k] \notin BuiltInDirectoryNames
    /\ \A i \in DOMAIN records :
          \A k \in DOMAIN DirectoriesBelowRoot(dirname(resolve(records[i].filePath))) :
              DirectoriesBelowRoot(dirname(resolve(records[i].filePath)))[k]
                  \notin BuiltInDirectoryNames

C7_Witness ==
    /\ scenario = [tree |-> 2, gitignore |-> "!node_modules"]
    /\ Fulfilled
    /\ Logged("Skipping common ignored directory: node_modules")
    /\ Logged("Skipping common ignored directory: src/node_modules")
    /\ HasRecord(join(argv.projectPath, "keep.log"))

\* a file the walker handed to processFile and nothing but its size could
\* keep out
OtherwiseIncluded(v) ==
    /\ ToLowerCase(extname(v.filePath)) \notin BINARY_EXTENSIONS
    /\ basename(v.filePath) \notin COMMON_IGNORED_FILES
    /\ resolve(v.filePath) # resolve(argv.outputPath)
    /\ readFileOk(disk, v.filePath)

\* C8: a file accepted by the rules and not otherwise excluded has a record when
\* its size is 1,048,576 bytes and none from 1,048,577 bytes on; a file with a
\* binary extension in any letter case never has one.
C8_SizeAndBinaryExclusion ==
    \A i \in DOMAIN visited :
        LET v == visited[i]
        IN  /\ (v.size = 1048576 /\ OtherwiseIncluded(v)) => HasRecord(v.filePath)
            /\ v.size >= 1048577 => ~HasRecord(v.filePath)
            /\ ToLowerCase(extname(v.filePath)) \in BINARY_EXTENSIONS => ~HasRecord(v.filePath)
            /\ basename(v.filePath) \in {"photo.PNG", "clip.Mp4"} => ~HasRecord(v.filePath)

C8_Witness ==
    /\ Fulfilled
    /\ HasRecord(join(argv.projectPath, "src/max.txt"))
    /\ \E i \in DOMAIN visited :
          basename(visited[i].filePath) = "big.txt" /\ visited[i].size = 1048577
    /\ \E i \in DOMAIN visited : basename(visited[i].filePath) = "photo.PNG"

\* C9 as stated: two runs in succession with the same root and output path on
\* an otherwise unmodified tree write the same artifact, also when the output
\* lies inside the tree.
C9_Idempotence ==
    \A i, j \in DOMAIN written : written[i].data = written[j].data

\* C10 as stated: exit code 0 when parseProject succeeds, a non-zero exit code
\* when it fails at top level.
C10_ExitCode ==
    \A i \in DOMAIN exits :
        /\ outcomes[i] = "fulfilled" => exits[i] = 0
        /\ outcomes[i] = "rejected" => exits[i] # 0

\* C11 as stated: a run fails only if the root cannot be listed or the final
\* write fails; a failure on an entry below the root (unreadable, or gone
\* between the listing and its stat) is skipped and does not fail the run.
C11_ErrorPropagation ==
    /\ error # "" =>
          error \in {"readdir " \o argv.projectPath, "writeFile " \o argv.outputPath}
    /\ \A i \in DOMAIN visited :
          (Fulfilled /\ ~readFileOk(disk, visited[i].filePath)) =>
              ~HasRecord(visited[i].filePath)

\* the final writes of invocation r
WritesOfRun(r) == {i \in DOMAIN written : written[i].run = r}

\* the walker has dealt with the entry `name` of the listed directory dir: it
\* skipped it, handed it to processFile, or listed it in turn
EntryHandled(dir, name) ==
    LET full == join(dir, name)
        rel  == relative(argv.projectPath, full)
    IN  \/ Logged("Skipping ignored path: " \o rel)
        \/ Logged("Skipping common ignored directory: " \o rel)
        \/ \E i \in DOMAIN visited : visited[i].filePath = full
        \/ \E i \in DOMAIN listed : listed[i] = full
        \/ (Exists(disk, full) /\ Node(disk, full).kind = "other")

\* every entry of every directory the walker listed has been dealt with
WalkComplete ==
    /\ listed # <<>>
    /\ \A i \in DOMAIN listed :
          /\ readdirOk(disk, listed[i])
          /\ \A k \in DOMAIN Node(disk, listed[i]).entries :
                EntryHandled(listed[i], Node(disk, listed[i]).entries[k])

\* C12: each run writes the output at most once, and only once the whole tree
\* has been traversed: no step taken while walking writes, and a run that fails
\* because the root cannot be listed writes nothing.
C12_SingleWriteAfterWalk ==
    /\ [](\A r \in 1..run : Cardinality(WritesOfRun(r)) <= 1)
    /\ []((error = "readdir " \o argv.projectPath) => WritesOfRun(run) = {})
    /\ [][(disk' # disk \/ written' # written) =>
             /\ pc = "write"
             /\ stack = <<>>
             /\ WalkComplete
             /\ WritesOfRun(run) = {}
             /\ written' = Append(written, [run |-> run, data |-> outputContent])]_vars

C12_Witness ==
    /\ scenario.tree = 2
    /\ Fulfilled
    /\ run = 2
    /\ Cardinality(WritesOfRun(1)) = 1
    /\ Cardinality(WritesOfRun(2)) = 1

\* the separator line of the artifact format: 80 "=" characters
SeparatorLine ==
    "================================================================================"

\* separator, marker line, separator, content, blank line
ExpectedRecord(rel, content) ==
    SeparatorLine \o "\n" \o "// FILE: " \o rel \o "\n" \o SeparatorLine \o "\n"
        \o content \o "\n" \o "\n"

\* a file the ignore policy accepts: accepted by the rules, no built-in ignored
\* name, no binary extension, at most 1,048,576 bytes, not the output artifact
\* (by resolved path), and readable
PolicyAcceptsFile(full) ==
    /\ basename(full) \notin COMMON_IGNORED_FILES
    /\ ToLowerCase(extname(full)) \notin BINARY_EXTENSIONS
    /\ Node(disk, full).size <= 1048576
    /\ resolve(full) # resolve(argv.outputPath)
    /\ readFileOk(disk, full)

\* the records of the entries `names` of dir, depth first, in enumeration order
RECURSIVE ExpectedBelow(_, _)
ExpectedBelow(dir, names) ==
    IF names = <<>> THEN ""
    ELSE LET full == join(dir, Head(names))
             rel  == relative(argv.projectPath, full)
             here ==
                 IF ~parserAccepts(gitignoreParser, rel) \/ ~Exists(disk, full) THEN ""
                 ELSE IF Node(disk, full).kind = "dir"
                      THEN IF Head(names) \in BuiltInDirectoryNames THEN ""
                           ELSE ExpectedBelow(full, Node(disk, full).entries)
                 ELSE IF Node(disk, full).kind = "file" /\ PolicyAcceptsFile(full)
                      THEN ExpectedRecord(rel, Node(disk, full).content)
                 ELSE ""
         IN  here \o ExpectedBelow(dir, Tail(names))

\* the walk is over and the final write is about to succeed
AboutToSucceed == pc = "write" /\ writeFileOk(disk, argv.outputPath)

\* C13 as stated: at the end of a successful run the buffer is the
\* concatenation, in depth-first visit order, of one record per accepted file in
\* the format of the artifact; no file appears twice, no rejected or pruned
\* file appears.
C13_RecordOrderAndMultiplicity ==
    AboutToSucceed =>
        /\ outputContent =
               ExpectedBelow(argv.projectPath, Node(disk, argv.projectPath).entries)
        /\ \A i, j \in DOMAIN records :
               records[i].filePath = records[j].filePath => i = j

====
